---- MODULE Spec2Model ----
(***************************************************************************)
(* fib_miles2km: the conversion engine (fibonacci, basic_miles2km,         *)
(* fib_interpolate, fib_cache_convert, fib_golden_ratio) and the --fib and *)
(* --basic paths of main.                                                  *)
(*                                                                         *)
(* Number representation.  TLC's integers are 32 bits wide, the program's  *)
(* are 64, so a uint64_t is a sequence of decimal limbs (radix Base, least *)
(* significant first, no leading zero limb; <<>> is 0) and the uint64_t    *)
(* operations wrap at 2^64.  A float or double is an exact signed rational *)
(* [neg, num, den] over such naturals: the rounding of float arithmetic is *)
(* not modelled, every comparison and result below is the real-number one. *)
(***************************************************************************)
EXTENDS Integers, Sequences, FiniteSets

(***************************************************************************)
(* Naturals of any size                                                    *)
(***************************************************************************)
Base == 10000

Limb(a, i) == IF i <= Len(a) THEN a[i] ELSE 0

RECURSIVE Trim(_)
Trim(a) ==
    IF Len(a) = 0 THEN a
    ELSE IF a[Len(a)] = 0 THEN Trim(SubSeq(a, 1, Len(a) - 1)) ELSE a

RECURSIVE NatFromInt(_)
NatFromInt(n) == IF n = 0 THEN <<>> ELSE <<n % Base>> \o NatFromInt(n \div Base)

RECURSIVE AddFrom(_, _, _, _)
AddFrom(a, b, i, c) ==
    IF i > Len(a) /\ i > Len(b)
    THEN IF c = 0 THEN <<>> ELSE <<c>>
    ELSE LET s == Limb(a, i) + Limb(b, i) + c
         IN  <<s % Base>> \o AddFrom(a, b, i + 1, s \div Base)

NatAdd(a, b) == AddFrom(a, b, 1, 0)

RECURSIVE SubFrom(_, _, _, _)
SubFrom(a, b, i, br) ==
    IF i > Len(a) THEN <<>>
    ELSE LET d == a[i] - Limb(b, i) - br
         IN  <<IF d < 0 THEN d + Base ELSE d>>
                 \o SubFrom(a, b, i + 1, IF d < 0 THEN 1 ELSE 0)

\* a - b for a >= b
NatSub(a, b) == Trim(SubFrom(a, b, 1, 0))

RECURSIVE LessFrom(_, _, _)
LessFrom(a, b, i) ==
    IF i = 0 THEN FALSE
    ELSE IF a[i] # b[i] THEN a[i] < b[i] ELSE LessFrom(a, b, i - 1)

NatLess(a, b) ==
    IF Len(a) # Len(b) THEN Len(a) < Len(b) ELSE LessFrom(a, b, Len(a))

NatLeq(a, b) == ~NatLess(b, a)

RECURSIVE MulSmallFrom(_, _, _, _)
MulSmallFrom(a, k, i, c) ==
    IF i > Len(a)
    THEN IF c = 0 THEN <<>> ELSE <<c>>
    ELSE LET s == a[i] * k + c
         IN  <<s % Base>> \o MulSmallFrom(a, k, i + 1, s \div Base)

RECURSIVE MulFrom(_, _, _)
MulFrom(a, b, j) ==
    IF j > Len(b) THEN <<>>
    ELSE NatAdd(MulSmallFrom(a, b[j], 1, 0), <<0>> \o MulFrom(a, b, j + 1))

NatMul(a, b) == Trim(MulFrom(a, b, 1))

RECURSIVE DivSmallFrom(_, _, _, _)
DivSmallFrom(a, k, i, r) ==
    IF i = 0 THEN <<>>
    ELSE LET cur == r * Base + a[i]
         IN  DivSmallFrom(a, k, i - 1, cur % k) \o <<cur \div k>>

\* a \div k for a one-limb divisor 0 < k < Base
NatDivSmall(a, k) == Trim(DivSmallFrom(a, k, Len(a), 0))

(***************************************************************************)
(* uint64_t                                                                *)
(***************************************************************************)
TwoPow64 == <<1616, 955, 737, 6744, 1844>>      \* 18446744073709551616
TwoPow32 == <<7296, 9496, 42>>                  \* 4294967296

\* whether the true sum a + b does not fit in 64 bits
Carries(a, b) == NatLeq(TwoPow64, NatAdd(a, b))

\* a narrower accumulator, uint32_t, in place of uint64_t
U32Add(a, b) ==
    LET s == NatAdd(a, b)
    IN  IF NatLeq(TwoPow32, s) THEN NatSub(s, TwoPow32) ELSE s

\* uint64_t a + b: the sum modulo 2^64
U64Add(a, b) ==
    LET s == NatAdd(a, b)
    IN  IF NatLeq(TwoPow64, s) THEN NatSub(s, TwoPow64) ELSE s

\* uint64_t a - b: the difference modulo 2^64
U64Sub(a, b) ==
    IF NatLeq(b, a) THEN NatSub(a, b) ELSE NatSub(NatAdd(a, TwoPow64), b)

(***************************************************************************)
(* float and double values: exact signed rationals                         *)
(***************************************************************************)
Mk(neg, num, den) == [neg |-> neg /\ num # <<>>, num |-> num, den |-> den]

\* an integer (a uint64_t, an int) converted to float
RNat(n) == Mk(FALSE, n, <<1>>)

\* a small signed integer of the model converted to double
RFromInt(z) ==
    IF z < 0 THEN Mk(TRUE, NatFromInt(-z), <<1>>) ELSE Mk(FALSE, NatFromInt(z), <<1>>)

RNeg(a) == Mk(~a.neg, a.num, a.den)

RAdd(a, b) ==
    LET x == NatMul(a.num, b.den)
        y == NatMul(b.num, a.den)
        d == NatMul(a.den, b.den)
    IN  IF a.neg = b.neg THEN Mk(a.neg, NatAdd(x, y), d)
        ELSE IF NatLeq(y, x) THEN Mk(a.neg, NatSub(x, y), d)
        ELSE Mk(b.neg, NatSub(y, x), d)

RSub(a, b) == RAdd(a, RNeg(b))

RMul(a, b) == Mk(a.neg # b.neg, NatMul(a.num, b.num), NatMul(a.den, b.den))

RDiv(a, b) == Mk(a.neg # b.neg, NatMul(a.num, b.den), NatMul(a.den, b.num))

RLess(a, b) ==
    LET x == NatMul(a.num, b.den)
        y == NatMul(b.num, a.den)
    IN  IF a.neg /\ ~b.neg THEN TRUE
        ELSE IF ~a.neg /\ b.neg THEN FALSE
        ELSE IF a.neg THEN NatLess(y, x)
        ELSE NatLess(x, y)

RLeq(a, b) == ~RLess(b, a)

REq(a, b) == ~RLess(a, b) /\ ~RLess(b, a)

(***************************************************************************)
(* fibonacci(int num)                                                      *)
(***************************************************************************)
MaxFibArg == 95

\* the states of fibonacci's loop: FibLoop(k, n, <<s0>>)[j + 1] is (a, b)
\* after j passes of the loop body, and ovf whether an addition so far lost
\* its carry
RECURSIVE FibLoop(_, _, _)
FibLoop(k, n, acc) ==
    IF k > n THEN acc
    ELSE LET s    == acc[Len(acc)]
             next == [a |-> s.b, b |-> U64Add(s.a, s.b),
                      ovf |-> s.ovf \/ Carries(s.a, s.b)]
         IN  IF Len(next.b) >= 0 THEN FibLoop(k + 1, n, Append(acc, next)) ELSE acc

FibStates == FibLoop(1, MaxFibArg, <<[a |-> <<>>, b |-> <<1>>, ovf |-> FALSE]>>)

\* fibonacci(num): the value returned, and whether the loop overflowed
fibonacci(num) ==
    IF num < 0 THEN [ret |-> <<>>, ovf |-> FALSE]
    ELSE IF num = 0 THEN [ret |-> <<>>, ovf |-> FALSE]
    ELSE IF num = 1 THEN [ret |-> <<1>>, ovf |-> FALSE]
    ELSE LET s == FibStates[num] IN [ret |-> s.b, ovf |-> s.ovf]

\* the Fibonacci sequence itself, in unbounded arithmetic:
\* F0 = 0, F1 = 1, Fn = Fn-1 + Fn-2
RECURSIVE TrueFibLoop(_, _, _)
TrueFibLoop(k, n, acc) ==
    IF k > n THEN acc
    ELSE LET next == NatAdd(acc[k - 1], acc[k])
         IN  IF Len(next) >= 0 THEN TrueFibLoop(k + 1, n, Append(acc, next)) ELSE acc

TrueFibSeq == TrueFibLoop(2, MaxFibArg + 3, <<(<<>>), <<1>>>>)

TrueFib(n) == TrueFibSeq[n + 1]

(***************************************************************************)
(* basic_miles2km(int miles)                                               *)
(***************************************************************************)
IntMax == Mk(FALSE, <<3647, 4748, 21>>, <<1>>)      \* INT_MAX =  2147483647
IntMin == Mk(TRUE, <<3648, 4748, 21>>, <<1>>)       \* INT_MIN = -2147483648

\* what a build may yield for a float or double converted to int when the
\* value does not fit (undefined behaviour): x86 gives INT_MIN, a saturating
\* conversion INT_MAX
UBInts == {IntMin, IntMax}

\* 1.609344f
KmPerMile == Mk(FALSE, NatFromInt(1609344), NatFromInt(1000000))

\* the conversion of the argument to the parameter type int: the fraction is
\* dropped; ub is the outcome when the value is out of int's range.
\* miles is non-negative with a one-limb denominator.
ToInt(miles, ub) ==
    LET t == NatDivSmall(miles.num, miles.den[1])
    IN  IF NatLeq(t, IntMax.num) THEN RNat(t) ELSE ub

\* the body of basic_miles2km, on its int parameter
Miles2Km(n) == RMul(n, KmPerMile)

basic_miles2km(miles, ub) == Miles2Km(ToInt(miles, ub))

\* the same with a floating-point parameter
ExactMiles2Km(miles) == RMul(miles, KmPerMile)

(***************************************************************************)
(* fib_interpolate(float miles)                                            *)
(***************************************************************************)
\* a lower switch to interpolation, 3.0f
Three == RNat(<<3>>)

Five == RNat(<<5>>)                                 \* 5.0f

WalkCap == 100

\* prev_mile = 0, prev_km = 1, curr_mile = 1, curr_km = 2
WalkInit ==
    [prev_mile |-> <<>>, prev_km |-> <<1>>, curr_mile |-> <<1>>, curr_km |-> <<2>>]

\* one pass of the loop body up to the overflow check
WalkStep(s) ==
    [prev_mile |-> s.curr_mile,
     prev_km   |-> s.curr_km,
     curr_mile |-> s.curr_km,
     curr_km   |-> U64Add(s.curr_mile, s.curr_km)]

\* an overflow check that looks at the miles pair only
OverflowCheckMilesOnly(s) == NatLess(s.curr_mile, s.prev_mile)

\* if (curr_km < prev_km || curr_mile < prev_mile) break;
OverflowCheck(s) ==
    NatLess(s.curr_km, s.prev_km) \/ NatLess(s.curr_mile, s.prev_mile)

\* the loop's states for as long as its condition lets it run: the body does
\* not read miles, so they are the same for every call.  The last one is the
\* first on which the overflow check breaks out (WalkCap ends the list of a
\* loop that never would).
RECURSIVE WalkLoop(_, _)
WalkLoop(k, acc) ==
    LET next == WalkStep(acc[Len(acc)])
    IN  IF k >= WalkCap THEN acc
        ELSE IF OverflowCheck(next) THEN Append(acc, next)
        ELSE WalkLoop(k + 1, Append(acc, next))

WalkStates == WalkLoop(1, <<WalkInit>>)

\* the loop leaves at state j: by the break, or because curr_mile <= miles
\* is false
WalkExit(miles, j) ==
    j = Len(WalkStates) \/ ~RLeq(RNat(WalkStates[j].curr_mile), miles)

\* y + (miles - x) * ((float)dy / dx)
LinearInterp(y, x, dy, dx, miles) ==
    RAdd(RNat(y), RMul(RSub(miles, RNat(x)), RDiv(RNat(dy), RNat(dx))))

fib_interpolate(miles, ub) ==
    IF RLess(miles, Five)
    THEN [ret |-> basic_miles2km(miles, ub), branch |-> "basic"]
    ELSE LET j == CHOOSE j \in 1 .. Len(WalkStates) :
                      WalkExit(miles, j) /\ \A i \in 1 .. (j - 1) : ~WalkExit(miles, i)
             s == WalkStates[j]
         IN  [ret       |-> LinearInterp(s.prev_km, s.prev_mile,
                                         U64Sub(s.curr_km, s.prev_km),
                                         U64Sub(s.curr_mile, s.prev_mile), miles),
              branch    |-> "interp",
              broke     |-> j > 1 /\ RLeq(RNat(WalkStates[j - 1].curr_mile), miles)
                                  /\ OverflowCheck(s),
              prev_mile |-> s.prev_mile,
              prev_km   |-> s.prev_km,
              curr_mile |-> s.curr_mile,
              curr_km   |-> s.curr_km]

(***************************************************************************)
(* fib_cache_convert(float miles)                                          *)
(***************************************************************************)
MAX_CACHE == 94

\* static uint64_t cache[MAX_CACHE] = {0};
ZeroCache == [i \in 0 .. (MAX_CACHE - 1) |-> <<>>]

\* for (int i = 2; i < MAX_CACHE; i++) cache[i] = cache[i-1] + cache[i-2];
RECURSIVE FillLoop(_, _)
FillLoop(c, i) ==
    IF i < MAX_CACHE
    THEN LET v == U64Add(c[i - 1], c[i - 2])
         IN  IF Len(v) >= 0 THEN FillLoop([c EXCEPT ![i] = v], i + 1) ELSE c
    ELSE c

\* a fill that stops one entry short
CacheFillShort ==
    [i \in 0 .. (MAX_CACHE - 1) |->
        IF i = MAX_CACHE - 1 THEN <<>>
        ELSE FillLoop([ZeroCache EXCEPT ![0] = <<>>, ![1] = <<1>>], 2)[i]]

\* the table after the initialisation block: every entry is written, so it
\* does not depend on what the array held
CacheFill == FillLoop([ZeroCache EXCEPT ![0] = <<>>, ![1] = <<1>>], 2)

\* the search loop stops at i
CacheStop(c, miles, i) == ~(i < MAX_CACHE - 2 /\ RLeq(RNat(c[i]), miles))

\* int i = 2; while (i < MAX_CACHE-2 && cache[i] <= miles) i++;
CacheSearch(c, miles) ==
    CHOOSE i \in 2 .. MAX_CACHE :
        CacheStop(c, miles, i) /\ \A j \in 2 .. (i - 1) : ~CacheStop(c, miles, j)

fib_cache_convert(c, init, miles, ub) ==
    LET c1 == IF init = 0 THEN CacheFill ELSE c
    IN  IF RLess(miles, Five)
        THEN [cache |-> c1, initialized |-> 1, filled |-> init = 0,
              ret |-> basic_miles2km(miles, ub), branch |-> "basic"]
        ELSE LET i == CacheSearch(c1, miles)
             IN  IF i >= MAX_CACHE - 2
                 THEN [cache |-> c1, initialized |-> 1, filled |-> init = 0,
                       ret |-> basic_miles2km(miles, ub), branch |-> "fallback",
                       i |-> i]
                 ELSE [cache |-> c1, initialized |-> 1, filled |-> init = 0,
                       ret |-> LinearInterp(c1[i], c1[i - 1],
                                            U64Sub(c1[i + 1], c1[i]),
                                            U64Sub(c1[i], c1[i - 1]), miles),
                       branch |-> "interp", i |-> i]

(***************************************************************************)
(* fib_golden_ratio(float miles)                                           *)
(***************************************************************************)
KFloor == -23
KCeil == 13

NatToInt(a) == Limb(a, 1) + Base * Limb(a, 2)

RECURSIVE SmallFibLoop(_, _, _)
SmallFibLoop(k, n, acc) ==
    IF k > n THEN acc ELSE SmallFibLoop(k + 1, n, Append(acc, acc[k - 1] + acc[k]))

SmallFib == SmallFibLoop(2, 30, <<0, 1>>)

\* (pow(phi, k) - pow(-phi, -k)) / sqrt(5.0): the Fibonacci number of index
\* k, for a negative index too (F(-n) is F(n) with sign (-1)^(n+1))
Binet(k) ==
    IF k >= 0 THEN SmallFib[k + 1]
    ELSE IF (-k) % 2 = 1 THEN SmallFib[1 - k] ELSE -SmallFib[1 - k]

\* the Lucas number of index k: phi^k = (Lucas(k) + Binet(k) * sqrt(5)) / 2
Lucas(k) == Binet(k - 1) + Binet(k + 1)

Sq(x) == LET n == NatFromInt(IF x < 0 THEN -x ELSE x) IN NatMul(n, n)

\* phi^k <= miles * sqrt(5.0), for miles = mt / u: with A = u * Lucas(k) and
\* B = 2 * mt - u * Binet(k) it is A <= B * sqrt(5)
PhiPowLeq(k, mt, u) ==
    LET A == u * Lucas(k)
        B == 2 * mt - u * Binet(k)
    IN  IF A <= 0 /\ B >= 0 THEN TRUE
        ELSE IF A > 0 /\ B <= 0 THEN FALSE
        ELSE IF A > 0 THEN NatLeq(Sq(A), NatMul(<<5>>, Sq(B)))
        ELSE NatLeq(NatMul(<<5>>, Sq(B)), Sq(A))

\* (int)floor(log(miles * sqrt(5.0)) / log(phi))
GoldenIndex(miles) ==
    LET mt == NatToInt(miles.num)
        u  == NatToInt(miles.den)
    IN  CHOOSE k \in KFloor .. KCeil : PhiPowLeq(k, mt, u) /\ ~PhiPowLeq(k + 1, mt, u)

Tiny == Mk(FALSE, <<1>>, NatFromInt(100000))               \* 1e-5
DblEpsilon == Mk(FALSE, <<1>>, <<496, 2737, 5996, 4503>>)  \* 2^-52

fib_golden_ratio(miles, ub) ==
    IF RLess(miles, Tiny) THEN [ret |-> RFromInt(0), branch |-> "zero"]
    ELSE LET k   == GoldenIndex(miles)
             Fk  == Binet(k)
             Fk1 == Binet(k + 1)
             Fk2 == Binet(k + 2)
         IN  IF RLess(RFromInt(Fk1 - Fk), DblEpsilon)
             THEN [ret |-> basic_miles2km(miles, ub), branch |-> "basic", k |-> k]
             ELSE [ret |-> RAdd(RFromInt(Fk1),
                                RMul(RSub(miles, RFromInt(Fk)),
                                     RDiv(RFromInt(Fk2 - Fk1), RFromInt(Fk1 - Fk)))),
                   branch |-> "interp", k |-> k]

(***************************************************************************)
(* Inputs                                                                  *)
(***************************************************************************)
MilesDen == 10
MaxFine == 140
MaxWhole == 95

\* t units of 1/MilesDen mile
Units(t) == Mk(FALSE, NatFromInt(t), NatFromInt(MilesDen))

Whole(w) == Units(w * MilesDen)

\* every 1/MilesDen mile up to MaxFine units, every whole mile up to MaxWhole,
\* and the README's 34.7 and 55.3
SmallMiles ==
    {Units(t) : t \in 0 .. MaxFine} \cup {Whole(w) : w \in 0 .. MaxWhole}
        \cup {Units(347), Units(553)}

Pow2_31    == RNat(<<3648, 4748, 21>>)                      \* 2^31
Pow2_62    == RNat(<<7904, 2738, 184, 1686, 461>>)          \* 2^62, in [F90, F91)
Pow2_62_61 == RNat(<<1856, 4108, 276, 7529, 691>>)          \* 2^62 + 2^61, in [F91, F92)
Pow2_63    == RNat(<<5808, 5477, 368, 3372, 922>>)          \* 2^63, in [F92, F93)
Pow2_63_62 == RNat(<<3712, 8216, 552, 5058, 1383>>)         \* 2^63 + 2^62, above F93
Pow2_64    == RNat(TwoPow64)                                \* 2^64
Pow2_70    == RNat(<<3424, 1130, 7174, 1620, 8059, 11>>)    \* 2^70

\* floats around the end of the table (each is exactly a float)
BigMiles == {Pow2_31, Pow2_62, Pow2_62_61, Pow2_63, Pow2_63_62, Pow2_64, Pow2_70}

MilesInputs == SmallMiles \cup BigMiles

\* a negative number, which main rejects
MinusOne == RFromInt(-1)

(***************************************************************************)
(* State                                                                   *)
(***************************************************************************)
VARIABLES
    pc,             \* "idle": no call in progress; "done": op has returned
    op,             \* the function called last
    arg,            \* its argument
    ret,            \* its return value (main: the exit status)
    frame,          \* its locals at the return
    cache,          \* fib_cache_convert's static cache[MAX_CACHE]
    initialized,    \* fib_cache_convert's static initialized
    fills           \* how many times the initialisation block has run

vars == <<pc, op, arg, ret, frame, cache, initialized, fills>>

NoFrame == [branch |-> "none"]

Init ==
    /\ pc = "idle"
    /\ op = "none"
    /\ arg = 0
    /\ ret = 0
    /\ frame = NoFrame
    /\ cache = ZeroCache
    /\ initialized = 0
    /\ fills = 0

CallFibonacci ==
    /\ pc = "idle"
    /\ \E num \in -1 .. MaxFibArg :
          LET r == fibonacci(num)
          IN  /\ op' = "fibonacci"
              /\ arg' = num
              /\ ret' = r.ret
              /\ frame' = [branch |-> "none", ovf |-> r.ovf]
    /\ pc' = "done"
    /\ UNCHANGED <<cache, initialized, fills>>

CallBasic ==
    /\ pc = "idle"
    /\ \E miles \in MilesInputs, ub \in UBInts :
          /\ op' = "basic_miles2km"
          /\ arg' = miles
          /\ ret' = basic_miles2km(miles, ub)
          /\ frame' = [branch |-> "none", miles |-> ToInt(miles, ub)]
    /\ pc' = "done"
    /\ UNCHANGED <<cache, initialized, fills>>

CallInterpolate ==
    /\ pc = "idle"
    /\ \E miles \in MilesInputs, ub \in UBInts :
          LET r == fib_interpolate(miles, ub)
          IN  /\ op' = "fib_interpolate"
              /\ arg' = miles
              /\ ret' = r.ret
              /\ frame' = r
    /\ pc' = "done"
    /\ UNCHANGED <<cache, initialized, fills>>

CallCache ==
    /\ pc = "idle"
    /\ \E miles \in MilesInputs, ub \in UBInts :
          LET r == fib_cache_convert(cache, initialized, miles, ub)
          IN  /\ op' = "fib_cache_convert"
              /\ arg' = miles
              /\ ret' = r.ret
              /\ frame' = [branch |-> r.branch,
                           i |-> IF r.branch = "basic" THEN 0 ELSE r.i]
              /\ cache' = r.cache
              /\ initialized' = r.initialized
              /\ fills' = IF r.filled THEN fills + 1 ELSE fills
    /\ pc' = "done"

\* fib_golden_ratio is called on the small inputs only
CallGolden ==
    /\ pc = "idle"
    /\ \E miles \in SmallMiles, ub \in UBInts :
          LET r == fib_golden_ratio(miles, ub)
          IN  /\ op' = "fib_golden_ratio"
              /\ arg' = miles
              /\ ret' = r.ret
              /\ frame' = r
    /\ pc' = "done"
    /\ UNCHANGED <<cache, initialized, fills>>

\* main with --fib: miles is what strtol read
MainFib ==
    /\ pc = "idle"
    /\ \E miles \in -1 .. MaxFibArg :
          /\ op' = "main_fib"
          /\ arg' = miles
          /\ IF miles <= 0 \/ miles > 93
             THEN /\ ret' = 1
                  /\ frame' = [branch |-> "invalid"]
             ELSE LET r == fibonacci(miles + 1)
                  IN  IF r.ret = <<>> /\ miles # 0
                      THEN /\ ret' = 1
                           /\ frame' = [branch |-> "failed"]
                      ELSE /\ ret' = 0
                           /\ frame' = [branch |-> "printed", index |-> miles + 1,
                                        km |-> r.ret, ovf |-> r.ovf]
    /\ pc' = "done"
    /\ UNCHANGED <<cache, initialized, fills>>

\* main with --basic: miles is what strtod read
MainBasic ==
    /\ pc = "idle"
    /\ \E miles \in MilesInputs \cup {MinusOne}, ub \in UBInts :
          /\ op' = "main_basic"
          /\ arg' = miles
          /\ IF RLess(miles, RFromInt(0))
             THEN /\ ret' = 1
                  /\ frame' = [branch |-> "invalid"]
             ELSE /\ ret' = 0
                  /\ frame' = [branch |-> "printed", km |-> basic_miles2km(miles, ub)]
    /\ pc' = "done"
    /\ UNCHANGED <<cache, initialized, fills>>

\* the caller goes on: the frame is gone, the static table stays
Return ==
    /\ pc = "done"
    /\ pc' = "idle"
    /\ op' = "none"
    /\ arg' = 0
    /\ ret' = 0
    /\ frame' = NoFrame
    /\ UNCHANGED <<cache, initialized, fills>>

Next ==
    \/ CallFibonacci
    \/ CallBasic
    \/ CallInterpolate
    \/ CallCache
    \/ CallGolden
    \/ MainFib
    \/ MainBasic
    \/ Return

Spec == Init /\ [][Next]_vars

(***************************************************************************)
(* Properties                                                              *)
(***************************************************************************)
Done(f) == pc = "done" /\ op = f

RAbs(a) == Mk(FALSE, a.num, a.den)

\* float rounding: a relative error of 1e-6
FloatTol == Mk(FALSE, <<1>>, NatFromInt(1000000))

Near(x, y) == RLeq(RAbs(RSub(x, y)), RMul(RAbs(y), FloatTol))

Ninety3 == Whole(93)

\* the methods' results on the small inputs, by method
MethodRet ==
    [f \in {"basic_miles2km", "fib_interpolate", "fib_cache_convert", "fib_golden_ratio"} |->
        [m \in SmallMiles |->
            IF f = "basic_miles2km" THEN basic_miles2km(m, IntMin)
            ELSE IF f = "fib_interpolate" THEN fib_interpolate(m, IntMin).ret
            ELSE IF f = "fib_cache_convert" THEN fib_cache_convert(ZeroCache, 0, m, IntMin).ret
            ELSE fib_golden_ratio(m, IntMin).ret]]

\* C1: basic_miles2km(m) is m * 1.609344 up to float rounding for every
\* non-negative m, a fractional m included; so is the value main prints for
\* --basic m.
C1_ExactConversion ==
    /\ Done("basic_miles2km") => Near(ret, ExactMiles2Km(arg))
    /\ (Done("main_basic") /\ frame.branch = "printed")
           => Near(frame.km, ExactMiles2Km(arg))

\* C2 as stated: for 0 <= m < 5 each of fib_interpolate, fib_cache_convert and
\* fib_golden_ratio returns exactly what basic_miles2km(m) returns and does
\* not interpolate.
C2_LowRangeAllMethods ==
    (/\ pc = "done"
     /\ op \in {"fib_interpolate", "fib_cache_convert", "fib_golden_ratio"}
     /\ RLess(arg, Whole(5)))
        => /\ \A ub \in UBInts : REq(ret, basic_miles2km(arg, ub))
           /\ frame.branch # "interp"

\* C2 as amended: for 0 <= m < 5 fib_interpolate and fib_cache_convert return
\* exactly what basic_miles2km(m) returns and take the fallback branch, not
\* the interpolation.
C2_LowRangeFallback ==
    (/\ pc = "done"
     /\ op \in {"fib_interpolate", "fib_cache_convert"}
     /\ RLess(arg, Whole(5)))
        => /\ \A ub \in UBInts : REq(ret, basic_miles2km(arg, ub))
           /\ frame.branch = "basic"

C2_Witness ==
    /\ Done("fib_cache_convert")
    /\ arg = Whole(4)
    /\ frame.branch = "basic"
    /\ REq(ret, Mk(FALSE, NatFromInt(4 * 1609344), NatFromInt(1000000)))

\* C3: for every valid miles value fib_interpolate and fib_cache_convert both
\* fall back or both interpolate on the same triple, and return the same
\* value.
C3_InterpolationAgreement ==
    Done("fib_interpolate") =>
        \E ub \in UBInts :
            LET c == fib_cache_convert(cache, initialized, arg, ub)
            IN  /\ REq(ret, c.ret)
                /\ (frame.branch = "interp") = (c.branch = "interp")
                /\ frame.branch = "interp" =>
                       /\ c.cache[c.i - 1] = frame.prev_mile
                       /\ c.cache[c.i] = frame.prev_km
                       /\ c.cache[c.i + 1] = frame.curr_km

\* the index k of the largest Fibonacci number <= miles, for miles >= 5 below
\* F92
Bracket(miles) ==
    CHOOSE k \in 5 .. 91 :
        RLeq(RNat(TrueFib(k)), miles) /\ RLess(miles, RNat(TrueFib(k + 1)))

\* F(k+1) + (m - F(k)) * (F(k+2) - F(k+1)) / (F(k+1) - F(k)), in the reals
Interpolated(miles, k) ==
    RAdd(RNat(TrueFib(k + 1)),
         RMul(RSub(miles, RNat(TrueFib(k))),
              RDiv(RNat(NatSub(TrueFib(k + 2), TrueFib(k + 1))),
                   RNat(NatSub(TrueFib(k + 1), TrueFib(k))))))

\* C4: for every m >= 5 inside the table range (below F92, so that the triple
\* is tabulated) fib_interpolate and fib_cache_convert bracket m on the largest
\* Fibonacci number F(k) <= m and return the interpolation on (F(k), F(k+1),
\* F(k+2)); m = F(k) gives F(k+1) and m = 10 gives 16.2.
C4_BracketAndInterpolate ==
    (/\ pc = "done"
     /\ op \in {"fib_interpolate", "fib_cache_convert"}
     /\ RLeq(Whole(5), arg)
     /\ RLess(arg, RNat(TrueFib(92))))
        => /\ REq(ret, Interpolated(arg, Bracket(arg)))
           /\ arg = Whole(10) => REq(ret, Mk(FALSE, <<162>>, <<10>>))
           /\ arg = RNat(TrueFib(Bracket(arg)))
                  => REq(ret, RNat(TrueFib(Bracket(arg) + 1)))

\* C5: fibonacci(0) = 0, fibonacci(1) = 1 and, for 2 <= n <= 93, fibonacci(n)
\* is the true sum fibonacci(n-1) + fibonacci(n-2), which fits in 64 bits with
\* no addition of the loop wrapping, and exceeds fibonacci(n-1) from n = 3 on.
C5_FibonacciRecurrence ==
    Done("fibonacci") =>
        /\ arg = 0 => ret = <<>>
        /\ arg = 1 => ret = <<1>>
        /\ arg \in 2 .. 93 =>
               /\ ret = NatAdd(fibonacci(arg - 1).ret, fibonacci(arg - 2).ret)
               /\ NatLess(ret, TwoPow64)
               /\ ~frame.ovf
               /\ arg >= 3 => NatLess(fibonacci(arg - 1).ret, ret)

C5_Witness ==
    /\ Done("fibonacci")
    /\ arg = 93
    /\ ret = <<6738, 2187, 4151, 160, 1220>>        \* 12200160415121876738

\* C6: for every --fib argument main accepts (1 to 93) no Fibonacci number of
\* index above 93 is computed, no 64-bit addition wraps, and the value printed
\* is a Fibonacci number.
C6_MainFibNoOverflow ==
    (Done("main_fib") /\ arg \in 1 .. 93) =>
        /\ frame.branch = "printed"
        /\ frame.index <= 93
        /\ ~frame.ovf
        /\ \E n \in 0 .. 94 : frame.km = TrueFib(n)

\* C7: a bracket search that reaches the overflow boundary returns
\* basic_miles2km(miles); an interpolation is never computed from a wrapped
\* Fibonacci pair nor from a pair that does not bracket miles.
C7_TableExhaustion ==
    /\ (Done("fib_interpolate") /\ frame.branch = "interp") =>
           /\ ~frame.broke
           /\ RLeq(RNat(frame.prev_mile), arg) /\ RLess(arg, RNat(frame.curr_mile))
           /\ frame.curr_km = NatAdd(frame.prev_mile, frame.prev_km)
    /\ (Done("fib_cache_convert") /\ frame.branch = "fallback") =>
           \E ub \in UBInts : REq(ret, basic_miles2km(arg, ub))
    /\ (Done("fib_cache_convert") /\ frame.branch = "interp") =>
           /\ RLeq(RNat(cache[frame.i - 1]), arg) /\ RLess(arg, RNat(cache[frame.i]))
           /\ cache[frame.i + 1] = NatAdd(cache[frame.i - 1], cache[frame.i])

\* C8: for m1 < m2 in [0, 93] each of basic_miles2km, fib_interpolate,
\* fib_cache_convert and fib_golden_ratio gives m1 at most what it gives m2.
C8_Monotone ==
    (/\ pc = "done"
     /\ op \in DOMAIN MethodRet
     /\ RLeq(arg, Ninety3))
        => \A m1 \in SmallMiles : RLess(m1, arg) => RLeq(MethodRet[op][m1], ret)

\* C9: the table is filled once, in the first call of fib_cache_convert
\* (whatever its miles); from then on initialized = 1 and cache[n] is the
\* Fibonacci number F(n) for every 0 <= n <= 93, and no later step changes an
\* entry or the flag.
C9_CacheLifecycle ==
    /\ [](/\ fills <= 1
          /\ initialized = 0 => (fills = 0 /\ cache = ZeroCache)
          /\ initialized = 1 =>
                 (fills = 1 /\ \A n \in 0 .. 93 : cache[n] = TrueFib(n))
          /\ Done("fib_cache_convert") => initialized = 1)
    /\ [][initialized = 1 => (cache' = cache /\ initialized' = 1 /\ fills' = fills)]_vars

C9_Witness ==
    /\ Done("fib_cache_convert")
    /\ frame.branch = "basic"
    /\ initialized = 1
    /\ fills = 1
    /\ cache[93] = <<6738, 2187, 4151, 160, 1220>>

\* C10: at the interpolation statement of fib_interpolate, also after the
\* overflow check broke the loop, curr_mile - prev_mile is positive with no
\* underflow; at that of fib_cache_convert cache[i] - cache[i-1] is, and
\* i-1, i, i+1 are indices of the table.
C10_NoDivisionByZero ==
    /\ (Done("fib_interpolate") /\ frame.branch = "interp") =>
           NatLess(frame.prev_mile, frame.curr_mile)
    /\ (Done("fib_cache_convert") /\ frame.branch = "interp") =>
           /\ frame.i - 1 >= 0
           /\ frame.i + 1 <= MAX_CACHE - 1
           /\ NatLess(cache[frame.i - 1], cache[frame.i])

C10_Witness ==
    /\ Done("fib_interpolate")
    /\ frame.branch = "interp"
    /\ frame.broke
    /\ NatLess(frame.prev_mile, frame.curr_mile)
====
